---- MODULE Spec2Model ----
(***************************************************************************)
(* Churn-risk analyser (streamlit_app.py): news retrieval, per-article     *)
(* classification, aggregation and risk-level parsing, as a state machine. *)
(*                                                                         *)
(* Texts that the program inspects character by character (classifier      *)
(* output given to get_risk_level, source URLs, allowed domains) are       *)
(* sequences of one-character strings.  Texts that are only stored,        *)
(* concatenated and compared are TLA+ strings.                             *)
(***************************************************************************)
EXTENDS Integers, Sequences, FiniteSets, TLC

VARIABLES
    summary_text,   \* get_risk_level: the argument (a character sequence)
    n_fragments,    \* how many fragments summary_text was assembled from
    risk_level,     \* get_risk_level: the value returned (<<>> before the call)
    fn,             \* fetch_news: the activation (arguments, loop index, results, return)
    batch_log,      \* fetch_news: per executed batch, raw entries / kept / added to results
    gn_log,         \* every gn.search invocation, in order
    news_cache,     \* st.cache_data store of fetch_news
    now,            \* wall clock, in seconds
    env_api_key,    \* the environment's SAMBANOVA_API_KEY ("" when unset)
    run,            \* run_analysis: the activation
    an,             \* analyze_news: the activation
    llm_cache,      \* st.cache_data store of analyze_text
    at_log,         \* every analyze_text request of the current run, in order
    report,         \* what the page shows and exports after a run (<<>> before)
    colour,         \* the display colour chosen for one article analysis text
    fetch_log,      \* every completed fetch_news call, in order
    last_run,       \* inputs and start time of the previous run (<<>> if none)
    n_runs          \* how often the button has been pressed

riskVars == <<summary_text, n_fragments, risk_level>>
pipeVars == <<env_api_key, run, an, llm_cache, at_log>>
pageVars == <<report, colour, fetch_log, last_run, n_runs>>

vars ==
    <<summary_text, n_fragments, risk_level, fn, batch_log, gn_log, news_cache, now,
      env_api_key, run, an, llm_cache, at_log, report, colour, fetch_log, last_run,
      n_runs>>

(***************************************************************************)
(* Bounds of the model.                                                    *)
(***************************************************************************)
MaxPieces == 3      \* a classifier text is at most this many fragments long
MaxEntries == 2     \* entries in one provider response
MaxQueries == 4     \* queries handed to fetch_news
MaxCap == 2         \* max_articles handed to fetch_news directly
MaxCompanies == 2   \* companies in one run
MaxDays == 1        \* days_to_search of a run
MaxRunBatches == 2  \* news searches in one run
MaxTicks == 2       \* half hours that pass in one session
MaxRuns == 2        \* runs in one session
MaxRequests == 3    \* requests made of one cached function

(***************************************************************************)
(* Python values.                                                          *)
(***************************************************************************)
None == <<>>                 \* an optional value is <<>> or <<v>>
Some(v) == <<v>>
IsNone(o) == o = <<>>
Val(o) == o[1]

Take(s, n) == SubSeq(s, 1, IF n < Len(s) THEN n ELSE Len(s))   \* s[:n], n >= 0
Range(s) == {s[k] : k \in 1..Len(s)}

\* dict.get(key, default)
Get(d, key, default) == IF key \in DOMAIN d THEN d[key] ELSE default

RECURSIVE Flatten(_)
Flatten(ss) == IF ss = <<>> THEN <<>> ELSE Head(ss) \o Flatten(Tail(ss))

(***************************************************************************)
(* Character-level string operations.                                      *)
(***************************************************************************)
Upper ==
    <<"A", "B", "C", "D", "E", "F", "G", "H", "I", "J", "K", "L", "M",
      "N", "O", "P", "Q", "R", "S", "T", "U", "V", "W", "X", "Y", "Z">>
Lower ==
    <<"a", "b", "c", "d", "e", "f", "g", "h", "i", "j", "k", "l", "m",
      "n", "o", "p", "q", "r", "s", "t", "u", "v", "w", "x", "y", "z">>

\* str.lower()
lower(s) ==
    [k \in 1..Len(s) |->
        IF \E u \in 1..26 : Upper[u] = s[k]
        THEN Lower[CHOOSE u \in 1..26 : Upper[u] = s[k]]
        ELSE s[k]]

\* sub in s
Contains(sub, s) ==
    \E k \in 0..(Len(s) - Len(sub)) : SubSeq(s, k + 1, k + Len(sub)) = sub

\* s.find(sub): first 1-based position of sub in s, 0 when absent
Find(sub, s) ==
    IF Contains(sub, s)
    THEN CHOOSE k \in 1..(Len(s) - Len(sub) + 1) :
            /\ SubSeq(s, k, k + Len(sub) - 1) = sub
            /\ \A j \in 1..(k - 1) : SubSeq(s, j, j + Len(sub) - 1) # sub
    ELSE 0

\* s.replace(old, ""), old non-empty: every non-overlapping occurrence, left to right
RECURSIVE Remove(_, _)
Remove(old, s) ==
    IF Find(old, s) = 0 THEN s
    ELSE SubSeq(s, 1, Find(old, s) - 1)
            \o Remove(old, SubSeq(s, Find(old, s) + Len(old), Len(s)))

(***************************************************************************)
(* get_risk_level.                                                         *)
(***************************************************************************)
LOW_RISK ==
    <<"l", "o", "w", " ", "r", "i", "s", "k">>
MEDIUM_RISK ==
    <<"m", "e", "d", "i", "u", "m", " ", "r", "i", "s", "k">>
HIGH_RISK ==
    <<"h", "i", "g", "h", " ", "r", "i", "s", "k">>
NO_CHURN ==
    <<"n", "o", " ", "c", "h", "u", "r", "n", " ", "r", "i", "s", "k", " ", "i", "n", "d", "i",
    "c", "a", "t", "e", "d">>

\* the five values get_risk_level returns
LowRisk ==
    <<"L", "o", "w", " ", "R", "i", "s", "k">>
MediumRisk ==
    <<"M", "e", "d", "i", "u", "m", " ", "R", "i", "s", "k">>
HighRisk ==
    <<"H", "i", "g", "h", " ", "R", "i", "s", "k">>
NoChurnRiskIndicated ==
    <<"N", "o", " ", "C", "h", "u", "r", "n", " ", "R", "i", "s", "k", " ", "I", "n", "d", "i",
    "c", "a", "t", "e", "d">>
UnknownRisk ==
    <<"U", "n", "k", "n", "o", "w", "n", " ", "R", "i", "s", "k">>

get_risk_level_high_first(text) ==
    LET summary_text_lower == lower(text) IN
    IF Contains(HIGH_RISK, summary_text_lower) THEN HighRisk
    ELSE IF Contains(MEDIUM_RISK, summary_text_lower) THEN MediumRisk
    ELSE IF Contains(LOW_RISK, summary_text_lower) THEN LowRisk
    ELSE IF Contains(NO_CHURN, summary_text_lower) THEN NoChurnRiskIndicated
    ELSE UnknownRisk

get_risk_level(text) ==
    LET summary_text_lower == lower(text) IN
    IF Contains(LOW_RISK, summary_text_lower) THEN LowRisk
    ELSE IF Contains(MEDIUM_RISK, summary_text_lower) THEN MediumRisk
    ELSE IF Contains(HIGH_RISK, summary_text_lower) THEN HighRisk
    ELSE IF Contains(NO_CHURN, summary_text_lower) THEN NoChurnRiskIndicated
    ELSE UnknownRisk

\* Fragments classifier texts are assembled from.
FragOverall ==
    <<"O", "v", "e", "r", "a", "l", "l", " ">>
FragS ==
    <<"s">>
FragLow ==
    <<"l", "o", "w">>
FragRisk ==
    <<" ", "r", "i", "s", "k">>
FragNoChurnUpper ==
    <<"N", "O", " ", "C", "H", "U", "R", "N", " ", "R", "I", "S", "K", " ", "I", "N", "D", "I",
    "C", "A", "T", "E", "D">>
FragMediumUpper ==
    <<"M", "E", "D", "I", "U", "M", " ", "R", "I", "S", "K">>

Fragments ==
    {LowRisk, FragMediumUpper, HighRisk, FragNoChurnUpper, NO_CHURN,
     FragOverall, FragS, FragLow, FragRisk}

(***************************************************************************)
(* fetch_news: domain filter.                                              *)
(***************************************************************************)
WWW ==
    <<"w", "w", "w", ".">>
SCHEME_CHARS ==
    <<"a", "b", "c", "d", "e", "f", "g", "h", "i", "j", "k", "l", "m", "n", "o", "p", "q", "r",
    "s", "t", "u", "v", "w", "x", "y", "z", "A", "B", "C", "D", "E", "F", "G", "H", "I", "J",
    "K", "L", "M", "N", "O", "P", "Q", "R", "S", "T", "U", "V", "W", "X", "Y", "Z", "0", "1",
    "2", "3", "4", "5", "6", "7", "8", "9", "+", "-", ".">>

\* urlparse(url).netloc: what lies between "//" and the next "/", "?" or "#",
\* after a leading "scheme:" is removed
netloc(url) ==
    LET colon == Find(<<":">>, url)
        has_scheme ==
            /\ colon > 1
            /\ lower(<<url[1]>>)[1] \in Range(Lower)
            /\ \A k \in 1..(colon - 1) : url[k] \in Range(SCHEME_CHARS)
        rest == IF has_scheme THEN SubSeq(url, colon + 1, Len(url)) ELSE url
        after == SubSeq(rest, 3, Len(rest))
        stops == {k \in 1..Len(after) : after[k] \in {"/", "?", "#"}}
        delim == IF stops = {} THEN Len(after) + 1
                 ELSE CHOOSE k \in stops : \A j \in stops : k <= j
    IN  IF Len(rest) >= 2 /\ SubSeq(rest, 1, 2) = <<"/", "/">>
        THEN SubSeq(after, 1, delim - 1)
        ELSE <<>>

\* lines 122-124: the normalized source domain of a raw entry
source_domain(article) ==
    LET source_link == Get(Get(article, "source", <<>>), "href", <<>>)
    IN  Remove(WWW, netloc(source_link))

\* line 125: any(d in domain for d in allowed_domains)
domain_allowed(article, domains) ==
    \E k \in 1..Len(domains) : Contains(domains[k], source_domain(article))

(***************************************************************************)
(* The news-search provider: raw entries and the outcomes of gn.search.    *)
(***************************************************************************)
HrefLivemint ==
    <<"h", "t", "t", "p", "s", ":", "/", "/", "w", "w", "w", ".", "l", "i", "v", "e", "m", "i",
    "n", "t", ".", "c", "o", "m">>
HrefEconomicTimes ==
    <<"h", "t", "t", "p", "s", ":", "/", "/", "e", "c", "o", "n", "o", "m", "i", "c", "t", "i",
    "m", "e", "s", ".", "i", "n", "d", "i", "a", "t", "i", "m", "e", "s", ".", "c", "o", "m",
    "/", "m", "a", "r", "k", "e", "t", "s">>
HrefExample ==
    <<"h", "t", "t", "p", "s", ":", "/", "/", "w", "w", "w", ".", "e", "x", "a", "m", "p", "l",
    "e", ".", "o", "r", "g">>

\* from an allowed domain; has a summary
EntryLivemint ==
    [link |-> "l1", title |-> "t1", summary |-> "s1", source |-> [href |-> HrefLivemint]]
\* from an allowed domain; summary and title empty
EntryEconomicTimes ==
    [link |-> "l2", title |-> "", summary |-> "", source |-> [href |-> HrefEconomicTimes]]
\* from no allowed domain; no summary key
EntryExample ==
    [link |-> "l3", title |-> "t3", source |-> [href |-> HrefExample]]
\* no source key; summary empty
EntryNoSource ==
    [link |-> "l4", title |-> "t4", summary |-> ""]

Entries == {EntryLivemint, EntryEconomicTimes, EntryExample, EntryNoSource}

BoundedSeq(S, n) == UNION {[1..k -> S] : k \in 0..n}

\* gn.search raises, or returns a dict without 'entries', or one with a list of
\* entries (no entry twice in one answer)
SearchOutcomes ==
    {[kind |-> "raise"]}
        \cup {[kind |-> "ok", search_results |-> [feed |-> "f"]]}
        \cup {[kind |-> "ok", search_results |-> [feed |-> "f", entries |-> es]] :
                es \in {s \in BoundedSeq(Entries, MaxEntries) :
                            \A j, k \in 1..Len(s) : s[j] = s[k] => j = k}}

(***************************************************************************)
(* run_analysis: the allowed domains it passes down.                       *)
(***************************************************************************)
\* lines 301-316
allowed_domains ==
    << <<"l", "i", "v", "e", "m", "i", "n", "t", ".", "c", "o", "m">>,
       <<"e", "c", "o", "n", "o", "m", "i", "c", "t", "i", "m", "e", "s", ".", "i", "n", "d", "i", "a", "t", "i", "m", "e", "s", ".", "c", "o", "m">>,
       <<"b", "u", "s", "i", "n", "e", "s", "s", "-", "s", "t", "a", "n", "d", "a", "r", "d", ".", "c", "o", "m">>,
       <<"t", "h", "e", "h", "i", "n", "d", "u", "b", "u", "s", "i", "n", "e", "s", "s", "l", "i", "n", "e", ".", "c", "o", "m">>,
       <<"f", "i", "n", "a", "n", "c", "i", "a", "l", "e", "x", "p", "r", "e", "s", "s", ".", "c", "o", "m">>,
       <<"n", "d", "t", "v", "p", "r", "o", "f", "i", "t", ".", "c", "o", "m">>,
       <<"z", "e", "e", "b", "i", "z", ".", "c", "o", "m">>,
       <<"m", "o", "n", "e", "y", "c", "o", "n", "t", "r", "o", "l", ".", "c", "o", "m">>,
       <<"b", "l", "o", "o", "m", "b", "e", "r", "g", "q", "u", "i", "n", "t", ".", "c", "o", "m">>,
       <<"c", "n", "b", "c", "t", "v", "1", "8", ".", "c", "o", "m">>,
       <<"b", "u", "s", "i", "n", "e", "s", "s", "t", "o", "d", "a", "y", ".", "i", "n">>,
       <<"i", "n", "d", "i", "a", "n", "e", "x", "p", "r", "e", "s", "s", ".", "c", "o", "m">>,
       <<"t", "h", "e", "h", "i", "n", "d", "u", ".", "c", "o", "m">>,
       <<"r", "e", "u", "t", "e", "r", "s", ".", "c", "o", "m">>,
       <<"b", "u", "s", "i", "n", "e", "s", "s", "t", "r", "a", "v", "e", "l", "l", "e", "r", ".", "c", "o", "m">>,
       <<"s", "i", "f", "y", ".", "c", "o", "m">>,
       <<"t", "e", "l", "e", "g", "r", "a", "p", "h", "i", "n", "d", "i", "a", ".", "c", "o", "m">>,
       <<"o", "u", "t", "l", "o", "o", "k", "i", "n", "d", "i", "a", ".", "c", "o", "m">>,
       <<"f", "i", "r", "s", "t", "p", "o", "s", "t", ".", "c", "o", "m">>,
       <<"p", "u", "l", "s", "e", ".", "z", "e", "r", "o", "d", "h", "a", ".", "c", "o", "m">>,
       <<"n", "d", "t", "v", "p", "r", "o", "f", "i", "t", ".", "c", "o", "m">>,
       <<"d", "d", "n", "e", "w", "s", ".", "g", "o", "v", ".", "i", "n">>,
       <<"n", "e", "w", "s", "o", "n", "a", "i", "r", ".", "g", "o", "v", ".", "i", "n">>,
       <<"p", "i", "b", ".", "g", "o", "v", ".", "i", "n">>,
       <<"n", "i", "t", "i", ".", "g", "o", "v", ".", "i", "n">>,
       <<"r", "b", "i", ".", "o", "r", "g", ".", "i", "n">>,
       <<"s", "e", "b", "i", ".", "g", "o", "v", ".", "i", "n">>,
       <<"d", "p", "i", "i", "t", ".", "g", "o", "v", ".", "i", "n">>,
       <<"i", "n", "v", "e", "s", "t", "i", "n", "d", "i", "a", ".", "g", "o", "v", ".", "i", "n">>,
       <<"i", "n", "d", "i", "a", "b", "r", "i", "e", "f", "i", "n", "g", ".", "c", "o", "m">>,
       <<"T", "a", "x", "s", "c", "a", "n", ".", "i", "n">>,
       <<"b", "w", "b", "u", "s", "i", "n", "e", "s", "s", "w", "o", "r", "l", "d", ".", "c", "o", "m">>,
       <<"i", "n", "c", "4", "2", ".", "c", "o", "m">>,
       <<"y", "o", "u", "r", "s", "t", "o", "r", "y", ".", "c", "o", "m">>,
       <<"v", "c", "c", "i", "r", "c", "l", "e", ".", "c", "o", "m">>,
       <<"e", "n", "t", "r", "a", "c", "k", "r", ".", "c", "o", "m">>,
       <<"t", "h", "e", "-", "k", "e", "n", ".", "c", "o", "m">>,
       <<"l", "i", "n", "k", "e", "d", "i", "n", ".", "c", "o", "m">>,
       <<"m", "c", "a", ".", "g", "o", "v", ".", "i", "n">>,
       <<"z", "a", "u", "b", "a", "c", "o", "r", "p", ".", "c", "o", "m">>,
       <<"t", "o", "f", "l", "e", "r", ".", "i", "n">>,
       <<"s", "m", "e", "s", "t", "r", "e", "e", "t", ".", "i", "n">> >>

\* lines 318-319: [domain.replace("www.", "") for domain in allowed_domains]
processed_allowed_domains ==
    [k \in 1..Len(allowed_domains) |-> Remove(WWW, allowed_domains[k])]

(***************************************************************************)
(* fetch_news: what a batch keeps.                                         *)
(***************************************************************************)
\* line 125 as the loop evaluates it; for run_analysis' list the answer is
\* tabulated once per entry of the model
AllowedEntry == [e \in Entries |-> domain_allowed(e, processed_allowed_domains)]

is_allowed(article, domains) ==
    IF domains = processed_allowed_domains /\ article \in Entries
    THEN AllowedEntry[article]
    ELSE domain_allowed(article, domains)

\* lines 121-126: the entries from allowed domains, in provider order
RECURSIVE filter_allowed(_, _)
filter_allowed(entries, domains) ==
    IF entries = <<>> THEN <<>>
    ELSE (IF is_allowed(Head(entries), domains) THEN <<Head(entries)>> ELSE <<>>)
            \o filter_allowed(Tail(entries), domains)

\* lines 119-131: what one batch keeps of the provider's entries;
\* allowed is the optional allowed_domains argument
articles_for_query_no_fallback(entries, allowed) ==
    IF ~IsNone(allowed) /\ Val(allowed) # <<>>
    THEN filter_allowed(entries, Val(allowed))
    ELSE entries

articles_for_query(entries, allowed) ==
    IF ~IsNone(allowed) /\ Val(allowed) # <<>>
    THEN LET matching == filter_allowed(entries, Val(allowed))
         IN  IF matching = <<>> /\ entries # <<>>
             THEN <<entries[1]>>
             ELSE matching
    ELSE entries

\* " OR ".join(group_queries)
RECURSIVE Join(_, _)
Join(sep, ss) ==
    IF ss = <<>> THEN ""
    ELSE IF Len(ss) = 1 THEN ss[1]
    ELSE ss[1] \o sep \o Join(sep, Tail(ss))

\* queries[i:i+3]
group_queries(queries, i) ==
    SubSeq(queries, i + 1, IF i + 3 < Len(queries) THEN i + 3 ELSE Len(queries))

\* datetime.strftime('%Y-%m-%d'): the calendar date, the time of day dropped
strftime_Ymd(dt) == dt.day

(***************************************************************************)
(* st.cache_data(ttl=3600): entries are [key, value, at].                  *)
(***************************************************************************)
ttl == 3600

cache_hit(cache, key) == {e \in cache : e.key = key /\ now - e.at < ttl}

cache_put(cache, key, value) ==
    {e \in cache : e.key # key} \cup {[key |-> key, value |-> value, at |-> now]}

(***************************************************************************)
(* fetch_news: the activation.                                             *)
(***************************************************************************)
NoArgs ==
    [company_name |-> "", from_date |-> [day |-> 0, sec |-> 0],
     to_date |-> [day |-> 0, sec |-> 0], max_articles |-> 0,
     queries |-> None, allowed_domains |-> None]

FetchIdle ==
    [pc |-> "idle", args |-> NoArgs, queries |-> <<>>, i |-> 0, results |-> <<>>,
     ret |-> None]

\* a call of fetch_news(company_name, from_date, to_date, max_articles, queries, allowed_domains)
FetchCall(args) == [FetchIdle EXCEPT !.pc = "call", !.args = args]

\* line 141
final_result_uncut(results, max_articles) == results

final_result(results, max_articles) == Take(results, max_articles)

\* line 133, then the next iteration or line 141
after_batch(f, added) ==
    LET results == f.results \o added IN
    IF f.i + 3 >= Len(f.queries)
    THEN [f EXCEPT !.pc = "done", !.results = results,
                   !.ret = Some(final_result(results, f.args.max_articles))]
    ELSE [f EXCEPT !.i = f.i + 3, !.results = results]

\* lines 137-139
on_search_error(f) == [f EXCEPT !.pc = "done", !.ret = None]

\* lines 118-136: one iteration of the loop on the provider's answer
on_search_results(f, search_results) ==
    IF DOMAIN search_results # {} /\ "entries" \in DOMAIN search_results
    THEN after_batch(f, Take(articles_for_query(search_results.entries,
                                                f.args.allowed_domains),
                             f.args.max_articles))
    ELSE after_batch(f, <<>>)

\* what the batch log records of one iteration
batch_record(f, outcome) ==
    LET has_entries == outcome.kind = "ok" /\ "entries" \in DOMAIN outcome.search_results
        raw == IF has_entries THEN outcome.search_results.entries ELSE <<>>
        kept == articles_for_query(raw, f.args.allowed_domains)
    IN  [batch |-> f.i \div 3 + 1,
         kind |-> IF outcome.kind = "raise" THEN "raise"
                  ELSE IF has_entries THEN "entries" ELSE "no_entries",
         raw |-> raw,
         kept |-> kept,
         added |-> IF outcome.kind = "raise" THEN <<>>
                   ELSE Take(kept, f.args.max_articles)]

\* the cache wrapper stores whatever the function returns
store_unless_failed(f) ==
    IF f.pc = "done" /\ ~IsNone(f.ret) THEN cache_put(news_cache, f.args, f.ret)
    ELSE news_cache

store_if_returned(f) ==
    IF f.pc = "done" THEN cache_put(news_cache, f.args, f.ret) ELSE news_cache

\* a completed call: its arguments, what it returned, when, and whether the
\* cache answered it
logged_if_returned(f, from_cache) ==
    IF f.pc = "done"
    THEN Append(fetch_log, [args |-> f.args, ret |-> f.ret, at |-> now,
                            from_cache |-> from_cache])
    ELSE fetch_log

\* lines 97-106: cache lookup; on a miss the body starts
FetchEnter ==
    /\ fn.pc = "call"
    /\ LET hit == cache_hit(news_cache, fn.args)
           queries == IF IsNone(fn.args.queries) THEN <<fn.args.company_name>>
                      ELSE Val(fn.args.queries)
           started == [fn EXCEPT !.queries = queries, !.i = 0, !.results = <<>>]
           f == IF queries = <<>>
                THEN [started EXCEPT !.pc = "done",
                        !.ret = Some(final_result(<<>>, fn.args.max_articles))]
                ELSE [started EXCEPT !.pc = "loop"]
       IN  IF hit # {}
           THEN /\ fn' = [fn EXCEPT !.pc = "done", !.ret = (CHOOSE e \in hit : TRUE).value]
                /\ fetch_log' = logged_if_returned(fn', TRUE)
                /\ UNCHANGED <<news_cache, batch_log>>
           ELSE /\ fn' = f
                /\ news_cache' = store_if_returned(f)
                /\ fetch_log' = logged_if_returned(f, FALSE)
                /\ batch_log' = <<>>
    /\ UNCHANGED <<riskVars, pipeVars, gn_log, now, report, colour, last_run, n_runs>>

\* lines 110-139: one batch, one gn.search call
FetchBatch ==
    /\ fn.pc = "loop"
    /\ \E outcome \in SearchOutcomes :
        LET combined_query == Join(" OR ", group_queries(fn.queries, fn.i))
            f == IF outcome.kind = "raise" THEN on_search_error(fn)
                 ELSE on_search_results(fn, outcome.search_results)
        IN  /\ gn_log' = Append(gn_log,
                    [query |-> combined_query,
                     from_ |-> strftime_Ymd(fn.args.from_date),
                     to_ |-> strftime_Ymd(fn.args.to_date)])
            /\ batch_log' = Append(batch_log, batch_record(fn, outcome))
            /\ fn' = f
            /\ news_cache' = store_if_returned(f)
            /\ fetch_log' = logged_if_returned(f, FALSE)
    /\ UNCHANGED <<riskVars, pipeVars, now, report, colour, last_run, n_runs>>

(***************************************************************************)
(* run_analysis: the other values it passes down.                          *)
(***************************************************************************)
\* line 237
max_articles_per_query == 10

\* lines 245-283: default_churn_keywords, its values flattened in order
default_keywords ==
    <<"merger", "acquisition", "investment", "joint venture", "IPO", "restructuring",
      "realignment", "rebranding", "subsidiary", "consolidation",
      "shutdown", "closed", "bankruptcy", "insolvency", "pivot", "market exit",
      "benefits withdrawn", "benefits discontinued", "centralization",
      "new CEO", "cost cutting", "budget cuts", "strategy shift",
      "payroll issue", "financial loss", "cost pressure", "cash flow",
      "budget reallocation",
      "employee transfer", "contractual workforce", "remote work",
      "layoffs", "furloughs", "downsizing",
      "tax policy", "labor law", "income tax", "GST change", "budget amendment",
      "social security",
      "switched vendor", "new platform", "competitor", "pricing", "market share",
      "disruption", "value proposition",
      "digital transformation", "HRMS integration", "API", "analytics",
      "mobile app", "platform upgrade",
      "onboarding delay", "tech issues", "merchant issue", "support problem",
      "delivery delay", "reimbursement issue",
      "low adoption", "user experience", "employee feedback",
      "generation gap", "hybrid work", "usage drop">>

\* lines 333-334: [company] + [f"{company} {keyword}" for ... for keyword in ...]
build_queries(company, keywords) ==
    <<company>> \o [k \in 1..Len(keywords) |-> company \o " " \o keywords[k]]

(***************************************************************************)
(* analyze_text.                                                           *)
(***************************************************************************)
\* lines 31-68, the text around the placeholder abridged
PROMPT_INDIVIDUAL_ANALYSIS ==
    <<"Carefully analyze the following news article text ...\n\n**Text:**\n",
      "{provided_text}",
      "\n\nBased on your analysis ... potential churn.\n">>

\* lines 70-76, the text around the placeholder abridged
PROMPT_COMBINED_ANALYSIS ==
    <<"Given the individual analyses ...\n\n**Individual Article Analyses:**\n",
      "{individual_analyses_summary}",
      "\n\nIn the first line, state the overall risk level ...\n">>

\* line 195: the template of the combined-summary request
PROVIDED_TEXT_ONLY == <<"{provided_text}">>

\* str.format: a template is the sequence of its literal parts and placeholders
Format(template, field, value) ==
    Join("", [k \in 1..Len(template) |->
                IF template[k] = "{" \o field \o "}" THEN value ELSE template[k]])

ANALYSIS_FAILED == "Analysis failed due to AI service error."

\* what the provider may send back as message content
Contents == {None, Some(""), Some("High Risk")}

\* chat.completions.create raises, or returns a response with no choice, or one
\* whose first choice has the given content
LLMOutcomes ==
    {[kind |-> "raise"]}
        \cup {[kind |-> "ok", choices |-> <<>>]}
        \cup {[kind |-> "ok", choices |-> <<[message |-> [content |-> c]]>>] :
                c \in Contents}

\* str(output) of line 91
str(output) == IF IsNone(output) THEN "None" ELSE Val(output)

\* lines 84-94: the value returned on the provider's outcome
analyze_text_body_unchecked(outcome) ==
    IF outcome.kind = "raise" \/ outcome.choices = <<>>
    THEN ANALYSIS_FAILED
    ELSE str(outcome.choices[1].message.content)

analyze_text_body(outcome) ==
    IF outcome.kind = "raise" THEN ANALYSIS_FAILED
    ELSE IF outcome.choices = <<>> THEN ANALYSIS_FAILED   \* IndexError, caught
    ELSE LET output == outcome.choices[1].message.content
         IN  IF ~IsNone(output) /\ Val(output) # ""
             THEN Val(output)
             ELSE "Unexpected response: " \o str(output)

\* the cache key of an analyze_text call: every argument but _sambanova_client
analyze_text_key_no_template(company_name, provided_text, prompt_template) ==
    [company_name |-> company_name, provided_text |-> provided_text,
     prompt_template |-> <<>>]

analyze_text_key(company_name, provided_text, prompt_template) ==
    [company_name |-> company_name, provided_text |-> provided_text,
     prompt_template |-> prompt_template]

\* what the provider can do on a call: it is asked only on a cache miss
NotAsked == [kind |-> "cached"]
provider_outcomes(company_name, provided_text, prompt_template) ==
    IF cache_hit(llm_cache,
                 analyze_text_key(company_name, provided_text, prompt_template)) # {}
    THEN {NotAsked}
    ELSE LLMOutcomes

\* lines 79-94: the cached call; outcome is what the provider does when it is asked
analyze_text(company_name, provided_text, prompt_template, outcome) ==
    LET key == analyze_text_key(company_name, provided_text, prompt_template)
        hit == cache_hit(llm_cache, key)
        prompt == Format(prompt_template, "provided_text", provided_text)
        result == IF hit # {} THEN (CHOOSE e \in hit : TRUE).value
                  ELSE analyze_text_body(outcome)
    IN  [result |-> result,
         cache |-> IF hit # {} THEN llm_cache ELSE cache_put(llm_cache, key, result),
         request |-> [company_name |-> company_name, provided_text |-> provided_text,
                      prompt_template |-> prompt_template,
                      invoked |-> hit = {},
                      prompt |-> IF hit = {} THEN prompt ELSE "",
                      outcome |-> IF hit = {} THEN outcome ELSE NotAsked,
                      result |-> result]]

(***************************************************************************)
(* analyze_news.                                                           *)
(***************************************************************************)
\* line 146: article.get('summary') or article.get('title') or ""
process_article_title_only(article) == Get(article, "title", "")

process_article(article) ==
    IF Get(article, "summary", "") # "" THEN article.summary
    ELSE IF Get(article, "title", "") # "" THEN article.title
    ELSE ""

NO_TEXT_ANALYSIS == "No Churn Risk Indicated (No text in article summary/title)."

NoAnalyzeArgs ==
    [company_name |-> "", from_date |-> [day |-> 0, sec |-> 0],
     to_date |-> [day |-> 0, sec |-> 0], max_articles |-> 0,
     queries |-> None, allowed_domains |-> None, sambanova_client |-> None]

AnalyzeIdle ==
    [pc |-> "idle", args |-> NoAnalyzeArgs, all_articles |-> None, i |-> 0,
     individual_analyses_list |-> <<>>, combined_analysis_text_for_model |-> <<>>,
     ret |-> None]

\* lines 153-158: no client, or the call of fetch_news
analyze_news_enter(args) ==
    IF IsNone(args.sambanova_client)
    THEN [AnalyzeIdle EXCEPT !.pc = "done", !.args = args,
            !.ret = Some([individual_analyses |-> <<>>,
                          overall_summary |-> "API client is not available."])]
    ELSE [AnalyzeIdle EXCEPT !.pc = "fetch", !.args = args]

fetch_args(args) ==
    [company_name |-> args.company_name, from_date |-> args.from_date,
     to_date |-> args.to_date, max_articles |-> args.max_articles,
     queries |-> args.queries, allowed_domains |-> args.allowed_domains]

\* line 160: not all_articles
no_articles_none_only(all_articles) == IsNone(all_articles)

no_articles(all_articles) == IsNone(all_articles) \/ Val(all_articles) = <<>>

\* lines 157-164: on the return of fetch_news
analyze_news_fetched(a, all_articles) ==
    IF no_articles(all_articles)
    THEN [a EXCEPT !.pc = "done", !.all_articles = all_articles,
            !.ret = Some([individual_analyses |-> <<>>,
                          overall_summary |->
                              "No relevant news articles found for analysis."])]
    ELSE [a EXCEPT !.pc = IF Val(all_articles) = <<>> THEN "combine" ELSE "loop",
            !.all_articles = all_articles, !.i = 0,
            !.individual_analyses_list = <<>>,
            !.combined_analysis_text_for_model = <<>>]

\* lines 175-180 and 183-188: the record and the numbered block of one article
record_analysis_drop_failed(a, article_title, article_url, analysis) ==
    [a EXCEPT
        !.individual_analyses_list =
            IF analysis = ANALYSIS_FAILED THEN @
            ELSE Append(@, [title |-> article_title, url |-> article_url,
                            analysis |-> analysis]),
        !.combined_analysis_text_for_model =
            IF analysis = ANALYSIS_FAILED THEN @
            ELSE Append(@, "Article " \o ToString(a.i + 1) \o " Analysis:\n"
                            \o analysis),
        !.i = a.i + 1,
        !.pc = IF a.i + 1 >= Len(Val(a.all_articles)) THEN "combine" ELSE "loop"]

record_analysis(a, article_title, article_url, analysis) ==
    [a EXCEPT
        !.individual_analyses_list =
            Append(@, [title |-> article_title, url |-> article_url,
                       analysis |-> analysis]),
        !.combined_analysis_text_for_model =
            Append(@, "Article " \o ToString(a.i + 1) \o " Analysis:\n" \o analysis),
        !.i = a.i + 1,
        !.pc = IF a.i + 1 >= Len(Val(a.all_articles)) THEN "combine" ELSE "loop"]

\* str.strip() of the text ending in the given analysis: of the strings an
\* analysis can be, only the empty-completion message ends in white space
rstrip(s) == IF s = "Unexpected response: " THEN "Unexpected response:" ELSE s

\* lines 180/188 and 193: the blocks joined, each followed by a blank line, stripped
combined_text(a) ==
    LET n == Len(a.individual_analyses_list)
        blocks == [k \in 1..n |->
                    IF k < n THEN a.combined_analysis_text_for_model[k] \o "\n\n"
                    ELSE "Article " \o ToString(n) \o " Analysis:\n"
                            \o rstrip(a.individual_analyses_list[n].analysis)]
    IN  Join("", blocks)

(***************************************************************************)
(* run_analysis.                                                           *)
(***************************************************************************)
\* line 19
sambanova_api_key == "literal-key-of-line-19"

\* lines 13-28
get_sambanova_client ==
    IF sambanova_api_key = "" THEN None
    ELSE Some([base_url |-> "https://api.sambanova.ai/v1", api_key |-> sambanova_api_key])

\* datetime.today() and datetime - timedelta(days)
SecondsPerDay == 86400
datetime_today == [day |-> now \div SecondsPerDay, sec |-> now % SecondsPerDay]
minus_days(dt, days) == [dt EXCEPT !.day = dt.day - days]

\* lines 286-298: custom_keyword_string is given as its comma-separated pieces,
\* each already stripped ("" for a blank piece; <<"">> is the empty string)
churn_keywords_to_use(custom_keyword_pieces) ==
    LET custom_keywords_flat_list == SelectSeq(custom_keyword_pieces, LAMBDA kw : kw # "")
    IN  IF custom_keyword_pieces # <<"">> /\ custom_keywords_flat_list # <<>>
        THEN custom_keywords_flat_list
        ELSE default_keywords

\* a dict, in insertion order: d[key] = value
dict_set_append(d, key, value) == Append(d, [key |-> key, value |-> value])

dict_set(d, key, value) ==
    IF \E k \in 1..Len(d) : d[k].key = key
    THEN [k \in 1..Len(d) |-> IF d[k].key = key THEN [key |-> key, value |-> value]
                              ELSE d[k]]
    ELSE Append(d, [key |-> key, value |-> value])

RunIdle ==
    [pc |-> "idle", company_names |-> <<>>, days_to_search |-> 0,
     custom_keyword_pieces |-> <<"">>, today |-> [day |-> 0, sec |-> 0],
     from_date |-> [day |-> 0, sec |-> 0], sambanova_client |-> None,
     keywords |-> <<>>, i |-> 0, results |-> <<>>, ret |-> None]

\* the operator's inputs: the company list, the slider's days, the keyword text;
\* a run makes at most MaxRunBatches news searches
Companies == {"A", "B"}
CompanyLists ==
    {s \in BoundedSeq(Companies, MaxCompanies) : s # <<>> /\ s[1] = "A"}
KeywordInputs == {<<"layoffs">>, <<"layoffs", "", "merger", "closed">>}
batches_per_company(custom_keyword_pieces) ==
    (Len(churn_keywords_to_use(custom_keyword_pieces)) + 3) \div 3
RunInputs ==
    {in \in [company_names : CompanyLists, days_to_search : 1..MaxDays,
             custom_keyword_pieces : KeywordInputs] :
        Len(in.company_names) * batches_per_company(in.custom_keyword_pieces)
            <= MaxRunBatches}

\* lines 231-330: the activation as the loop over the companies begins
run_started(in) ==
    LET today == datetime_today
        client == get_sambanova_client
        started == [RunIdle EXCEPT
                        !.company_names = in.company_names,
                        !.days_to_search = in.days_to_search,
                        !.custom_keyword_pieces = in.custom_keyword_pieces,
                        !.today = today,
                        !.from_date = minus_days(today, in.days_to_search),
                        !.sambanova_client = client]
    IN  IF IsNone(client)
        THEN [started EXCEPT !.pc = "done", !.ret = Some(<<>>)]
        ELSE [started EXCEPT !.pc = "loop",
                !.keywords = churn_keywords_to_use(in.custom_keyword_pieces)]

\* lines 231-330
RunStart ==
    /\ run.pc = "idle"
    /\ \E in \in RunInputs : run' = run_started(in)
    /\ at_log' = <<>>
    /\ gn_log' = <<>>
    /\ UNCHANGED <<riskVars, fn, batch_log, news_cache, now, env_api_key, an, llm_cache, pageVars>>

\* lines 332-337, through analyze_news (lines 153-158) to the call of fetch_news
RunCompany ==
    /\ run.pc = "loop"
    /\ an.pc = "idle"
    /\ LET company == run.company_names[run.i + 1]
           args == [company_name |-> company, from_date |-> run.from_date,
                    to_date |-> run.today, max_articles |-> max_articles_per_query,
                    queries |-> Some(build_queries(company, run.keywords)),
                    allowed_domains |-> Some(processed_allowed_domains),
                    sambanova_client |-> run.sambanova_client]
           a == analyze_news_enter(args)
       IN  /\ an' = a
           /\ fn' = IF a.pc = "fetch" THEN FetchCall(fetch_args(args)) ELSE fn
    /\ UNCHANGED <<riskVars, batch_log, gn_log, news_cache, now, env_api_key, run,
                   llm_cache, at_log, pageVars>>

\* lines 157-164: fetch_news has returned
AnalyzeFetched ==
    /\ an.pc = "fetch"
    /\ fn.pc = "done"
    /\ an' = analyze_news_fetched(an, fn.ret)
    /\ fn' = FetchIdle
    /\ batch_log' = <<>>
    /\ UNCHANGED <<riskVars, gn_log, news_cache, now, env_api_key, run, llm_cache, at_log, pageVars>>

\* lines 166-188: one article
AnalyzeArticle ==
    /\ an.pc = "loop"
    /\ LET article == Val(an.all_articles)[an.i + 1]
           article_text == process_article(article)
           article_url == Get(article, "link", "No URL available")
           article_title == Get(article, "title", "Article " \o ToString(an.i + 1))
       IN  IF article_text # ""
           THEN \E outcome \in provider_outcomes(an.args.company_name, article_text,
                                                 PROMPT_INDIVIDUAL_ANALYSIS) :
                    LET call == analyze_text(an.args.company_name, article_text,
                                             PROMPT_INDIVIDUAL_ANALYSIS, outcome)
                    IN  /\ an' = record_analysis(an, article_title, article_url,
                                                 call.result)
                        /\ llm_cache' = call.cache
                        /\ at_log' = Append(at_log,
                               [company_index |-> run.i + 1, article |-> an.i + 1,
                                request |-> call.request])
           ELSE /\ an' = record_analysis(an, article_title, article_url, NO_TEXT_ANALYSIS)
                /\ UNCHANGED <<llm_cache, at_log>>
    /\ UNCHANGED <<riskVars, fn, batch_log, gn_log, news_cache, now, env_api_key, run,
                   pageVars>>

\* lines 190-197: the combined summary
AnalyzeCombine ==
    /\ an.pc = "combine"
    /\ IF an.individual_analyses_list # <<>>
       THEN LET combined_prompt ==
                    Format(PROMPT_COMBINED_ANALYSIS, "individual_analyses_summary",
                           combined_text(an))
            IN  \E outcome \in provider_outcomes(an.args.company_name, combined_prompt,
                                                  PROVIDED_TEXT_ONLY) :
                    LET call == analyze_text(an.args.company_name, combined_prompt,
                                             PROVIDED_TEXT_ONLY, outcome)
                    IN  /\ an' = [an EXCEPT !.pc = "done",
                                   !.ret = Some([individual_analyses |->
                                                     an.individual_analyses_list,
                                                 overall_summary |-> call.result])]
                        /\ llm_cache' = call.cache
                        /\ at_log' = Append(at_log,
                               [company_index |-> run.i + 1, article |-> 0,
                                request |-> call.request])
       ELSE /\ an' = [an EXCEPT !.pc = "done",
                       !.ret = Some([individual_analyses |-> <<>>,
                                     overall_summary |->
                                         "Overall No Churn Risk Indicated."])]
            /\ UNCHANGED <<llm_cache, at_log>>
    /\ UNCHANGED <<riskVars, fn, batch_log, gn_log, news_cache, now, env_api_key, run,
                   pageVars>>

\* lines 338-340: the company's entry, then the next company or the return
RunCollect ==
    /\ run.pc = "loop"
    /\ an.pc = "done"
    /\ LET company == run.company_names[run.i + 1]
           company_analysis == Val(an.ret)
           results ==
               dict_set(run.results, company,
                        IF DOMAIN company_analysis # {} THEN company_analysis
                        ELSE [overall_summary |-> "Analysis failed."])
       IN  run' = IF run.i + 1 >= Len(run.company_names)
                  THEN [run EXCEPT !.pc = "done", !.i = run.i + 1, !.results = results,
                                   !.ret = Some(results)]
                  ELSE [run EXCEPT !.i = run.i + 1, !.results = results]
    /\ an' = AnalyzeIdle
    /\ UNCHANGED <<riskVars, fn, batch_log, gn_log, news_cache, now, env_api_key,
                   llm_cache, at_log, pageVars>>

(***************************************************************************)
(* The page after a run: the report shown and the rows exported.           *)
(***************************************************************************)
\* the characters of the texts an analysis or a summary can be
CharsAnalysisFailed ==
    <<"A", "n", "a", "l", "y", "s", "i", "s", " ", "f", "a", "i", "l", "e", "d", " ", "d", "u",
    "e", " ", "t", "o", " ", "A", "I", " ", "s", "e", "r", "v", "i", "c", "e", " ", "e", "r",
    "r", "o", "r", ".">>
CharsUnexpectedNone ==
    <<"U", "n", "e", "x", "p", "e", "c", "t", "e", "d", " ", "r", "e", "s", "p", "o", "n", "s",
    "e", ":", " ", "N", "o", "n", "e">>
CharsUnexpectedEmpty ==
    <<"U", "n", "e", "x", "p", "e", "c", "t", "e", "d", " ", "r", "e", "s", "p", "o", "n", "s",
    "e", ":", " ">>
CharsNoTextAnalysis ==
    <<"N", "o", " ", "C", "h", "u", "r", "n", " ", "R", "i", "s", "k", " ", "I", "n", "d", "i",
    "c", "a", "t", "e", "d", " ", "(", "N", "o", " ", "t", "e", "x", "t", " ", "i", "n", " ",
    "a", "r", "t", "i", "c", "l", "e", " ", "s", "u", "m", "m", "a", "r", "y", "/", "t", "i",
    "t", "l", "e", ")", ".">>
CharsNoRelevantNews ==
    <<"N", "o", " ", "r", "e", "l", "e", "v", "a", "n", "t", " ", "n", "e", "w", "s", " ", "a",
    "r", "t", "i", "c", "l", "e", "s", " ", "f", "o", "u", "n", "d", " ", "f", "o", "r", " ",
    "a", "n", "a", "l", "y", "s", "i", "s", ".">>
CharsOverallNoChurn ==
    <<"O", "v", "e", "r", "a", "l", "l", " ", "N", "o", " ", "C", "h", "u", "r", "n", " ", "R",
    "i", "s", "k", " ", "I", "n", "d", "i", "c", "a", "t", "e", "d", ".">>
CharsNoOverallAnalysis ==
    <<"N", "o", " ", "o", "v", "e", "r", "a", "l", "l", " ", "a", "n", "a", "l", "y", "s", "i",
    "s", " ", "a", "v", "a", "i", "l", "a", "b", "l", "e", ".">>
CharsNoAnalysis ==
    <<"N", "o", " ", "a", "n", "a", "l", "y", "s", "i", "s", " ", "a", "v", "a", "i", "l", "a",
    "b", "l", "e">>

chars(s) ==
    CASE s = "High Risk" -> HighRisk
      [] s = ANALYSIS_FAILED -> CharsAnalysisFailed
      [] s = "Unexpected response: None" -> CharsUnexpectedNone
      [] s = "Unexpected response: " -> CharsUnexpectedEmpty
      [] s = NO_TEXT_ANALYSIS -> CharsNoTextAnalysis
      [] s = "No relevant news articles found for analysis." -> CharsNoRelevantNews
      [] s = "Overall No Churn Risk Indicated." -> CharsOverallNoChurn
      [] s = "No overall analysis available." -> CharsNoOverallAnalysis
      [] s = "No analysis available" -> CharsNoAnalysis

\* lines 214-228: the colour of a company's summary
display_summary_with_color(text) ==
    LET level == get_risk_level(text) IN
    IF Contains(HighRisk, level) THEN "error"
    ELSE IF Contains(MediumRisk, level) THEN "warning"
    ELSE IF Contains(LowRisk, level) THEN "info"
    ELSE "success"

\* lines 492-499: the colour of one article's analysis
article_colour(article_analysis_text) ==
    IF Contains(HighRisk, article_analysis_text) THEN "error"
    ELSE IF Contains(MediumRisk, article_analysis_text) THEN "warning"
    ELSE IF Contains(LowRisk, article_analysis_text) THEN "info"
    ELSE "write"

\* lines 476-503: one section per entry of the results
display_results(analysis_results) ==
    [k \in 1..Len(analysis_results) |->
        LET analysis == analysis_results[k].value
            individual == Get(analysis, "individual_analyses", <<>>)
        IN  [company |-> analysis_results[k].key,
             summary |-> display_summary_with_color(
                            chars(Get(analysis, "overall_summary",
                                      "No overall analysis available."))),
             articles |-> [i \in 1..Len(individual) |->
                            article_colour(chars(individual[i].analysis))]]]

\* lines 506-527: one row per entry of the results
data_for_df(analysis_results) ==
    [k \in 1..Len(analysis_results) |->
        LET analysis == analysis_results[k].value
            overall_summary == Get(analysis, "overall_summary", "No analysis available")
            individual == Get(analysis, "individual_analyses", <<>>)
        IN  [Company |-> analysis_results[k].key,
             OverallRiskLevel |-> get_risk_level(chars(overall_summary)),
             OverallSummary |-> overall_summary,
             Articles |-> [i \in 1..Len(individual) |->
                            [Title |-> individual[i].title,
                             URL |-> individual[i].url,
                             RiskLevel |-> get_risk_level(chars(individual[i].analysis)),
                             Analysis |-> individual[i].analysis]]]]

\* lines 472-548: run_analysis has returned; the report and the export
Report ==
    /\ run.pc = "done"
    /\ report = None
    /\ report' = Some([display |-> display_results(Val(run.ret)),
                        data_for_df |-> data_for_df(Val(run.ret))])
    /\ UNCHANGED <<riskVars, fn, batch_log, gn_log, news_cache, now, pipeVars,
                   colour, fetch_log, last_run, n_runs>>

(***************************************************************************)
(* Specification Spec: one run of run_analysis over the operator's inputs. *)
(***************************************************************************)
Init ==
    /\ summary_text = <<>>
    /\ n_fragments = 0
    /\ risk_level = <<>>
    /\ fn = FetchIdle
    /\ batch_log = <<>>
    /\ gn_log = <<>>
    /\ news_cache = {}
    /\ now = 0
    /\ env_api_key \in {"", "key-from-environment"}
    /\ run = RunIdle
    /\ an = AnalyzeIdle
    /\ llm_cache = {}
    /\ at_log = <<>>
    /\ report = <<>>
    /\ colour = <<>>
    /\ fetch_log = <<>>
    /\ last_run = <<>>
    /\ n_runs = 0

Next ==
    \/ RunStart
    \/ RunCompany
    \/ FetchEnter
    \/ FetchBatch
    \/ AnalyzeFetched
    \/ AnalyzeArticle
    \/ AnalyzeCombine
    \/ RunCollect
    \/ Report

Spec == Init /\ [][Next]_vars

(***************************************************************************)
(* Specification SpecSession: the operator presses the button again and    *)
(* again in one server process; the two caches live on between the runs.   *)
(***************************************************************************)
\* the clock is read in steps of half the caches' lifetime
TickSeconds == ttl \div 2

seconds(dt) == dt.day * SecondsPerDay + dt.sec

SessionInputs ==
    {in \in RunInputs :
        in.company_names = <<"A">> /\ in.custom_keyword_pieces = <<"layoffs">>}

\* time passes between two runs, between two calls
Tick ==
    /\ run.pc \in {"idle", "done"}
    /\ fn.pc \in {"idle", "done"}
    /\ now + TickSeconds <= MaxTicks * TickSeconds
    /\ now' = now + TickSeconds
    /\ UNCHANGED <<riskVars, fn, batch_log, gn_log, news_cache, pipeVars, pageVars>>

\* line 463: the button is pressed, the script runs again from the top; two
\* runs never read the same instant from the clock
SessionRun ==
    /\ n_runs < MaxRuns
    /\ \/ run.pc = "idle"
       \/ run.pc = "done" /\ report # None /\ now > seconds(run.today)
    /\ \E in \in SessionInputs : run' = run_started(in)
    /\ last_run' = IF run.pc = "done"
                   THEN Some([company_names |-> run.company_names,
                              days_to_search |-> run.days_to_search,
                              custom_keyword_pieces |-> run.custom_keyword_pieces,
                              today |-> run.today])
                   ELSE last_run
    /\ at_log' = <<>>
    /\ gn_log' = <<>>
    /\ report' = None
    /\ n_runs' = n_runs + 1
    /\ UNCHANGED <<riskVars, fn, batch_log, news_cache, now, env_api_key, an, llm_cache,
                   colour, fetch_log>>

InitSession == Init /\ env_api_key = ""

NextSession ==
    \/ SessionRun
    \/ Tick
    \/ RunCompany
    \/ FetchEnter
    \/ FetchBatch
    \/ AnalyzeFetched
    \/ AnalyzeArticle
    \/ AnalyzeCombine
    \/ RunCollect
    \/ Report

SpecSession == InitSession /\ [][NextSession]_vars

(***************************************************************************)
(* Specification SpecCaches: one of the two cached functions is called     *)
(* again and again while time passes, arguments drawn from small sets.     *)
(***************************************************************************)
\* (company, text, template): the first, and three that differ from it in one part
ClassifyArgs ==
    {[company_name |-> "A", provided_text |-> "s1",
      prompt_template |-> PROMPT_INDIVIDUAL_ANALYSIS],
     [company_name |-> "B", provided_text |-> "s1",
      prompt_template |-> PROMPT_INDIVIDUAL_ANALYSIS],
     [company_name |-> "A", provided_text |-> "t3",
      prompt_template |-> PROMPT_INDIVIDUAL_ANALYSIS],
     [company_name |-> "A", provided_text |-> "s1",
      prompt_template |-> PROVIDED_TEXT_ONLY]}

CacheFetchArgs ==
    {[company_name |-> "A",
      from_date |-> [day |-> 10, sec |-> 0],
      to_date |-> [day |-> 12, sec |-> 0],
      max_articles |-> 1, queries |-> None, allowed_domains |-> None]}

InitCaches ==
    /\ summary_text = <<>>
    /\ n_fragments = 0
    /\ risk_level = <<>>
    /\ fn \in {FetchIdle} \cup {FetchCall(args) : args \in CacheFetchArgs}
    /\ batch_log = <<>>
    /\ gn_log = <<>>
    /\ news_cache = {}
    /\ now = 0
    /\ env_api_key = ""
    /\ run = RunIdle
    /\ an = AnalyzeIdle
    /\ llm_cache = {}
    /\ at_log = <<>>
    /\ report = <<>>
    /\ colour = <<>>
    /\ fetch_log = <<>>
    /\ last_run = <<>>
    /\ n_runs = 0

\* lines 79-94: one call of analyze_text, logged with its time
ClassifyCall ==
    /\ fn.pc = "idle"
    /\ Len(at_log) < MaxRequests
    /\ \E args \in ClassifyArgs :
        \E outcome \in provider_outcomes(args.company_name, args.provided_text,
                                           args.prompt_template) :
            LET call == analyze_text(args.company_name, args.provided_text,
                                     args.prompt_template, outcome)
            IN  /\ llm_cache' = call.cache
                /\ at_log' = Append(at_log, [request |-> call.request, at |-> now])
    /\ UNCHANGED <<riskVars, fn, batch_log, gn_log, news_cache, now, env_api_key, run, an,
                   pageVars>>

\* lines 97-98: fetch_news is called once more
FetchAgain ==
    /\ fn.pc = "done"
    /\ Len(fetch_log) < MaxRequests
    /\ \E args \in CacheFetchArgs : fn' = FetchCall(args)
    /\ UNCHANGED <<riskVars, batch_log, gn_log, news_cache, now, pipeVars, pageVars>>

NextCaches ==
    \/ ClassifyCall
    \/ FetchAgain
    \/ FetchEnter
    \/ FetchBatch
    \/ Tick

SpecCaches == InitCaches /\ [][NextCaches]_vars

(***************************************************************************)
(* Specification SpecRisk: get_risk_level applied to assembled texts.      *)
(***************************************************************************)
NotParsed == <<>>

InitRisk ==
    /\ summary_text = <<>>
    /\ n_fragments = 0
    /\ risk_level = NotParsed
    /\ fn = FetchIdle
    /\ batch_log = <<>>
    /\ gn_log = <<>>
    /\ news_cache = {}
    /\ now = 0
    /\ env_api_key = ""
    /\ run = RunIdle
    /\ an = AnalyzeIdle
    /\ llm_cache = {}
    /\ at_log = <<>>
    /\ report = <<>>
    /\ colour = <<>>
    /\ fetch_log = <<>>
    /\ last_run = <<>>
    /\ n_runs = 0

\* the classifier text grows by one fragment
AppendFragment ==
    /\ risk_level = NotParsed
    /\ n_fragments < MaxPieces
    /\ \E frag \in Fragments : summary_text' = summary_text \o frag
    /\ n_fragments' = n_fragments + 1
    /\ UNCHANGED <<risk_level, fn, batch_log, gn_log, news_cache, now, pipeVars, pageVars>>

\* risk_level = get_risk_level(summary_text)
ParseRisk ==
    /\ risk_level = NotParsed
    /\ risk_level' = get_risk_level(summary_text)
    /\ UNCHANGED <<summary_text, n_fragments, fn, batch_log, gn_log, news_cache, now, pipeVars, pageVars>>

\* lines 490-499: the same text shown as an article's analysis
ShowArticle ==
    /\ risk_level # NotParsed
    /\ colour = None
    /\ colour' = Some(article_colour(summary_text))
    /\ UNCHANGED <<riskVars, fn, batch_log, gn_log, news_cache, now, pipeVars,
                   report, fetch_log, last_run, n_runs>>

NextRisk == AppendFragment \/ ParseRisk \/ ShowArticle

SpecRisk == InitRisk /\ [][NextRisk]_vars

(***************************************************************************)
(* Specification SpecFetch: one call of fetch_news, arguments drawn from   *)
(* small sets, the provider answering each batch as it pleases.            *)
(***************************************************************************)
FetchQueries == build_queries("A", default_keywords)

FetchArgs ==
    {[company_name |-> "A",
      from_date |-> [day |-> 10, sec |-> 0],
      to_date |-> [day |-> 12, sec |-> 0],
      max_articles |-> m, queries |-> q, allowed_domains |-> d] :
        m \in 1..MaxCap,
        q \in {None} \cup {Some(SubSeq(FetchQueries, 1, n)) : n \in 0..MaxQueries},
        d \in {None, Some(<<>>), Some(processed_allowed_domains)}}

InitFetch ==
    /\ summary_text = <<>>
    /\ n_fragments = 0
    /\ risk_level = NotParsed
    /\ \E args \in FetchArgs : fn = FetchCall(args)
    /\ batch_log = <<>>
    /\ gn_log = <<>>
    /\ news_cache = {}
    /\ now = 0
    /\ env_api_key = ""
    /\ run = RunIdle
    /\ an = AnalyzeIdle
    /\ llm_cache = {}
    /\ at_log = <<>>
    /\ report = <<>>
    /\ colour = <<>>
    /\ fetch_log = <<>>
    /\ last_run = <<>>
    /\ n_runs = 0

NextFetch == FetchEnter \/ FetchBatch

SpecFetch == InitFetch /\ [][NextFetch]_vars
(***************************************************************************)
(* Properties.                                                             *)
(***************************************************************************)
SameLetter(a, b) ==
    a = b \/ \E u \in 1..26 : {a, b} = {Upper[u], Lower[u]}

\* phrase occurs in s, upper and lower case letters taken as equal
ContainsIgnoringCase(phrase, s) ==
    \E k \in 0..(Len(s) - Len(phrase)) :
        \A j \in 1..Len(phrase) : SameLetter(s[k + j], phrase[j])

RiskPhrases == <<LOW_RISK, MEDIUM_RISK, HIGH_RISK, NO_CHURN>>
RiskLevels == <<LowRisk, MediumRisk, HighRisk, NoChurnRiskIndicated>>

\* C1: get_risk_level returns the level of the first of "low risk", "medium
\* risk", "high risk", "no churn risk indicated" (in this order) that the text
\* contains regardless of letter case, Unknown Risk when it contains none; a
\* text with both "low risk" and "high risk" gives Low Risk; the result is one
\* of the five levels.
C1_FirstPhraseInOrder ==
    risk_level # NotParsed =>
        LET found == {p \in 1..4 : ContainsIgnoringCase(RiskPhrases[p], summary_text)}
        IN  /\ risk_level \in Range(RiskLevels) \cup {UnknownRisk}
            /\ found = {} => risk_level = UnknownRisk
            /\ found # {} =>
                risk_level = RiskLevels[CHOOSE p \in found : \A q \in found : p <= q]
            /\ {1, 3} \subseteq found => risk_level = LowRisk

\* C1 witness: a parsed text holding "high risk" and, only in mixed case, "low risk"
C1_Witness ==
    /\ risk_level = LowRisk
    /\ ContainsIgnoringCase(HIGH_RISK, summary_text)
    /\ ~Contains(LOW_RISK, summary_text)

\* the batches of the current fetch_news activation run under a non-empty allowed_domains
FilterActive ==
    ~IsNone(fn.args.allowed_domains) /\ Val(fn.args.allowed_domains) # <<>>

MatchingEntries(raw) ==
    SelectSeq(raw, LAMBDA e :
        \E k \in 1..Len(Val(fn.args.allowed_domains)) :
            Contains(Val(fn.args.allowed_domains)[k], source_domain(e)))

\* results is the concatenation of what the logged batches added
ResultsAreWhatBatchesAdded ==
    fn.pc \in {"loop", "done"} =>
        fn.results = Flatten([b \in 1..Len(batch_log) |-> batch_log[b].added])

\* C2 as stated: a batch without a matching entry adds its first raw entry,
\* a batch with matching entries adds exactly those, in provider order.
C2_AddsExactlyMatching ==
    FilterActive =>
        \A b \in 1..Len(batch_log) :
            LET r == batch_log[b] IN
            r.kind = "entries" =>
                /\ (r.raw # <<>> /\ MatchingEntries(r.raw) = <<>>) => r.added = <<r.raw[1]>>
                /\ MatchingEntries(r.raw) # <<>> => r.added = MatchingEntries(r.raw)

\* C2 amended: under a non-empty allowed_domains a batch adds to results the
\* first max_articles elements of what it keeps, which is its first raw entry
\* when no entry matches and its matching entries in provider order otherwise.
C2_AddsFirstMaxOfMatching ==
    /\ ResultsAreWhatBatchesAdded
    /\ FilterActive =>
        \A b \in 1..Len(batch_log) :
            LET r == batch_log[b] IN
            r.kind = "entries" =>
                /\ (r.raw # <<>> /\ MatchingEntries(r.raw) = <<>>) =>
                        r.added = Take(<<r.raw[1]>>, fn.args.max_articles)
                /\ MatchingEntries(r.raw) # <<>> =>
                        r.added = Take(MatchingEntries(r.raw), fn.args.max_articles)

\* C2 witness: a batch of two raw entries, none matching, has added the first
C2_Witness ==
    /\ FilterActive
    /\ fn.pc = "done"
    /\ \E b \in 1..Len(batch_log) :
        /\ batch_log[b].kind = "entries"
        /\ Len(batch_log[b].raw) = 2
        /\ MatchingEntries(batch_log[b].raw) = <<>>
        /\ batch_log[b].added = <<batch_log[b].raw[1]>>
        /\ fn.ret = Some(<<batch_log[b].raw[1]>>)

NoBatchRaised == \A b \in 1..Len(batch_log) : batch_log[b].kind # "raise"

KeptInBatchOrder == Flatten([b \in 1..Len(batch_log) |-> batch_log[b].kept])

\* C3: when no provider call fails, fetch_news returns the first max_articles
\* elements of the concatenation, in batch order, of what each batch kept.
C3_ReturnsPrefixOfConcatenation ==
    (fn.pc = "done" /\ NoBatchRaised) =>
        fn.ret = Some(Take(KeptInBatchOrder, fn.args.max_articles))

\* C3 witness: two batches, the first keeping fewer than max_articles, the
\* total more: the result is all of batch one and the head of batch two
C3_Witness ==
    /\ fn.pc = "done"
    /\ Len(batch_log) = 2
    /\ NoBatchRaised
    /\ Len(batch_log[1].kept) = 1
    /\ Len(batch_log[2].kept) = 2
    /\ fn.args.max_articles = 2
    /\ fn.ret = Some(<<batch_log[1].kept[1], batch_log[2].kept[1]>>)

NumBatches == (Len(fn.queries) + 2) \div 3

\* C8: a failing batch contributes nothing, the other batches'
\* articles are returned and every batch is queried.
C8_OnlyFailingBatchDegrades ==
    (fn.pc = "done" /\ ~NoBatchRaised) =>
        /\ Len(batch_log) = NumBatches
        /\ fn.ret = Some(Take(KeptInBatchOrder, fn.args.max_articles))

\* C9: no two articles of the sequence fetch_news returns have the same link.
C9_NoDuplicateLinks ==
    (fn.pc = "done" /\ ~IsNone(fn.ret)) =>
        \A j, k \in 1..Len(Val(fn.ret)) :
            Val(fn.ret)[j].link = Val(fn.ret)[k].link => j = k

\* fetch_news has returned to the current analyze_news activation
Fetched == an.pc \in {"loop", "combine", "done"}

FetchedNothing ==
    Fetched /\ (IsNone(an.all_articles) \/ Val(an.all_articles) = <<>>)

\* the analyze_text requests of the current activation for article k (0: the
\* combined summary)
RequestsFor(k) ==
    {j \in 1..Len(at_log) :
        at_log[j].company_index = run.i + 1 /\ at_log[j].article = k}

\* C4: when fetch_news yields no articles (an empty list or, on a provider
\* failure, no result), analyze_news returns no individual analyses and the
\* summary "No relevant news articles found for analysis.", and no analyze_text
\* request is made for that company.
C4_NoArticlesNoClassifier ==
    FetchedNothing =>
        /\ an.pc = "done"
        /\ an.ret = Some([individual_analyses |-> <<>>,
                          overall_summary |->
                              "No relevant news articles found for analysis."])
        /\ \A j \in 1..Len(at_log) :
                at_log[j].request.company_name # an.args.company_name

\* C4 witness: the second company's news search failed after the first
\* company's articles were classified
C4_Witness ==
    /\ FetchedNothing
    /\ IsNone(an.all_articles)
    /\ run.i = 1
    /\ at_log # <<>>

\* summary if non-empty, else title, else nothing
ExtractedText(article) ==
    IF "summary" \in DOMAIN article /\ article.summary # "" THEN article.summary
    ELSE IF "title" \in DOMAIN article /\ article.title # "" THEN article.title
    ELSE ""

\* C5: an article whose summary and title are both empty or absent gets the
\* analysis "No Churn Risk Indicated (No text in article summary/title)." and no
\* analyze_text request; an article with text gets exactly one request, made
\* with that text and the per-article prompt template.
C5_EmptyTextSkipsClassifier ==
    (Fetched /\ ~FetchedNothing) =>
        \A k \in 1..Len(an.individual_analyses_list) :
            LET text == ExtractedText(Val(an.all_articles)[k])
                analysis == an.individual_analyses_list[k].analysis
            IN  IF text = ""
                THEN /\ analysis =
                            "No Churn Risk Indicated (No text in article summary/title)."
                     /\ RequestsFor(k) = {}
                ELSE /\ Cardinality(RequestsFor(k)) = 1
                     /\ \A j \in RequestsFor(k) :
                            /\ at_log[j].request.company_name = an.args.company_name
                            /\ at_log[j].request.provided_text = text
                            /\ at_log[j].request.prompt_template
                                    = PROMPT_INDIVIDUAL_ANALYSIS
                            /\ at_log[j].request.result = analysis

\* C5 witness: an activation that met an article without text, one whose text
\* is its summary and one whose text is its title
C5_Witness ==
    /\ an.pc = "done"
    /\ ~FetchedNothing
    /\ \E k \in 1..Len(Val(an.all_articles)) :
            ExtractedText(Val(an.all_articles)[k]) = ""
    /\ \E j \in RequestsFor(1) \cup RequestsFor(2) \cup RequestsFor(3) :
            at_log[j].request.provided_text = "s1"
    /\ \E j \in RequestsFor(1) \cup RequestsFor(2) \cup RequestsFor(3) :
            at_log[j].request.provided_text = "t3"

\* C6: individual_analyses follows the fetched articles one to one and in
\* order: after n articles it has n entries, the k-th carrying the k-th
\* article's link and title, and analyze_news returns it with one entry per
\* article.
C6_AnalysesFollowArticles ==
    (Fetched /\ ~FetchedNothing) =>
        LET all == Val(an.all_articles)
            list == an.individual_analyses_list
        IN  /\ Len(list) = IF an.pc = "loop" THEN an.i ELSE Len(all)
            /\ \A k \in 1..Len(list) :
                    list[k].url = all[k].link /\ list[k].title = all[k].title
            /\ an.pc = "done" =>
                    /\ Val(an.ret).individual_analyses = list
                    /\ Len(list) = Len(all)

\* C6 witness: four articles, among them a failed classification, an answer
\* served from the cache and an article without text
C6_Witness ==
    /\ an.pc = "done"
    /\ ~FetchedNothing
    /\ Len(Val(an.all_articles)) = 4
    /\ \E k \in 1..4 : an.individual_analyses_list[k].analysis = ANALYSIS_FAILED
    /\ \E k \in 1..4 : \E j \in RequestsFor(k) : ~at_log[j].request.invoked
    /\ \E k \in 1..4 : RequestsFor(k) = {}

Raised(outcome) == outcome.kind = "raise"
Malformed(outcome) == outcome.kind = "ok" /\ outcome.choices = <<>>
EmptyCompletion(outcome) ==
    /\ outcome.kind = "ok"
    /\ outcome.choices # <<>>
    /\ outcome.choices[1].message.content \in {None, Some("")}

\* every article with text and the combined summary have been requested
AllRequested ==
    /\ \A k \in 1..Len(Val(an.all_articles)) :
            ExtractedText(Val(an.all_articles)[k]) # "" => RequestsFor(k) # {}
    /\ \E j \in RequestsFor(0) :
            at_log[j].request.prompt_template = PROVIDED_TEXT_ONLY

\* C7 as stated: whenever the provider raises or answers with a malformed or
\* an empty response, analyze_text returns "Analysis failed due to AI service
\* error."; analyze_news goes on to the later articles and the combined summary.
C7_EveryFailureGivesFailureString ==
    /\ \A j \in 1..Len(at_log) :
        LET r == at_log[j].request IN
        (r.invoked /\ (Raised(r.outcome) \/ Malformed(r.outcome)
                        \/ EmptyCompletion(r.outcome)))
            => r.result = "Analysis failed due to AI service error."
    /\ (an.pc = "done" /\ ~FetchedNothing) => AllRequested

\* C7 amended: when the provider raises or its response has no choice,
\* analyze_text returns "Analysis failed due to AI service error."; an empty
\* completion (null or "") is not a failure and gives "Unexpected response: "
\* followed by the completion as printed; in every case analyze_news goes on
\* to the later articles and the combined summary.
C7_RaisedFailureGivesFailureString ==
    /\ \A j \in 1..Len(at_log) :
        LET r == at_log[j].request IN
        r.invoked =>
            /\ (Raised(r.outcome) \/ Malformed(r.outcome))
                    => r.result = "Analysis failed due to AI service error."
            /\ (EmptyCompletion(r.outcome)
                    /\ r.outcome.choices[1].message.content = None)
                    => r.result = "Unexpected response: None"
            /\ (EmptyCompletion(r.outcome)
                    /\ r.outcome.choices[1].message.content = Some(""))
                    => r.result = "Unexpected response: "
    /\ (an.pc = "done" /\ ~FetchedNothing) => AllRequested

\* C7 witness: the first article's classification raised, a later article and
\* the combined summary were still sent to the provider
C7_Witness ==
    /\ an.pc = "done"
    /\ ~FetchedNothing
    /\ \E j \in RequestsFor(1) :
            at_log[j].request.invoked /\ Raised(at_log[j].request.outcome)
    /\ \E j \in RequestsFor(2) : at_log[j].request.invoked
    /\ \E j \in RequestsFor(0) : at_log[j].request.invoked

RECURSIVE FirstOccurrences(_)
FirstOccurrences(s) ==
    IF s = <<>> THEN <<>>
    ELSE LET front == FirstOccurrences(SubSeq(s, 1, Len(s) - 1))
         IN  IF s[Len(s)] \in Range(front) THEN front ELSE Append(front, s[Len(s)])

\* the companies are handled one after the other, in input order: the
\* classification requests are logged company by company, each for the
\* company it is logged under, and nothing is asked for a company not yet begun
SequentialInInputOrder ==
    /\ \A j \in 1..Len(at_log) :
        /\ at_log[j].company_index \in 1..Len(run.company_names)
        /\ at_log[j].company_index <= run.i + 1
        /\ at_log[j].request.company_name = run.company_names[at_log[j].company_index]
        /\ j > 1 => at_log[j - 1].company_index <= at_log[j].company_index
    /\ (run.pc = "loop" /\ fn.pc # "idle") =>
            fn.args.company_name = run.company_names[run.i + 1]

Reported == run.pc = "done" /\ report # None

\* C11: the companies are processed sequentially in input order, and the
\* results and the export hold exactly one entry (row) per element of the
\* input list, in input order, also when a company is named more than once.
C11_OneRowPerListElement ==
    /\ SequentialInInputOrder
    /\ Reported =>
        /\ Len(Val(run.ret)) = Len(run.company_names)
        /\ Len(Val(report).data_for_df) = Len(run.company_names)
        /\ \A k \in 1..Len(run.company_names) :
                /\ Val(run.ret)[k].key = run.company_names[k]
                /\ Val(report).data_for_df[k].Company = run.company_names[k]

\* C11 amended: the companies are processed sequentially in input order, and
\* the results, the report and the export hold exactly one entry (row) per
\* distinct company name of the input list, in the order of first occurrence;
\* a list without repetition gives one row per element in input order.
C11_OneRowPerDistinctCompany ==
    /\ SequentialInInputOrder
    /\ run.pc \in {"loop", "done"} =>
        LET names == FirstOccurrences(SubSeq(run.company_names, 1, run.i))
        IN  /\ Len(run.results) = Len(names)
            /\ \A k \in 1..Len(names) : run.results[k].key = names[k]
    /\ Reported =>
        LET names == FirstOccurrences(run.company_names)
            rows == Val(report).data_for_df
            shown == Val(report).display
        IN  /\ Val(run.ret) = run.results
            /\ Len(rows) = Len(names) /\ Len(shown) = Len(names)
            /\ \A k \in 1..Len(names) :
                    /\ rows[k].Company = names[k]
                    /\ shown[k].company = names[k]
                    /\ rows[k].OverallSummary = run.results[k].value.overall_summary
            /\ (\A j, k \in 1..Len(run.company_names) :
                    run.company_names[j] = run.company_names[k] => j = k)
                => names = run.company_names

\* C11 witness: a company named twice was analysed twice and exported once
C11_Witness ==
    /\ Reported
    /\ run.company_names = <<"A", "A">>
    /\ Len(Val(report).data_for_df) = 1
    /\ \E j \in 1..Len(at_log) : at_log[j].company_index = 1
    /\ \E j \in 1..Len(at_log) : at_log[j].company_index = 2

\* the level a display colour stands for
LevelsOfColour(c) ==
    CASE c = "error" -> {HighRisk}
      [] c = "warning" -> {MediumRisk}
      [] c = "info" -> {LowRisk}
      [] OTHER -> {NoChurnRiskIndicated, UnknownRisk}

\* C14: the colour an article's analysis is shown in (error for High Risk,
\* warning for Medium Risk, info for Low Risk, neutral otherwise) stands for
\* the level get_risk_level yields for the same text, which the export writes.
C14_ColourMatchesExportedLevel ==
    (risk_level # NotParsed /\ colour # None) =>
        risk_level \in LevelsOfColour(Val(colour))

\* the current run repeats the previous one (same companies, same window
\* length, same keywords) on the same calendar day, less than an hour later
RepeatsLastRun ==
    /\ last_run # None
    /\ run.pc \in {"loop", "done"}
    /\ run.company_names = Val(last_run).company_names
    /\ run.days_to_search = Val(last_run).days_to_search
    /\ run.custom_keyword_pieces = Val(last_run).custom_keyword_pieces
    /\ run.today.day = Val(last_run).today.day
    /\ seconds(run.today) - seconds(Val(last_run).today) < ttl

\* C13: a run that repeats the previous one less than an hour later on the
\* same day has its fetch_news served from the news cache: the news-search
\* provider is not invoked.
C13_RepeatedRunSearchesNothing ==
    RepeatsLastRun => gn_log = <<>>

\* requests j and k of the classification log name the same (company, text, template)
SameTriple(j, k) ==
    /\ at_log[j].request.company_name = at_log[k].request.company_name
    /\ at_log[j].request.provided_text = at_log[k].request.provided_text
    /\ at_log[j].request.prompt_template = at_log[k].request.prompt_template

\* the earlier requests with k's triple that the provider answered less than an
\* hour before request k
AnsweredWithinHour(k) ==
    {j \in 1..(k - 1) :
        /\ SameTriple(j, k)
        /\ at_log[j].request.invoked
        /\ at_log[k].at - at_log[j].at < ttl}

\* C12: two requests with the same (company, text, template) less than an
\* hour apart invoke the provider at most once and return the same response; a
\* response is returned only to requests with the triple of the request that
\* produced it (so never across the per-article and the combined template).
C12_SameTripleWithinHourSameResponse ==
    \A k \in 1..Len(at_log) :
        /\ \A j \in 1..(k - 1) :
                (SameTriple(j, k) /\ at_log[k].at - at_log[j].at < ttl) =>
                    /\ ~(at_log[j].request.invoked /\ at_log[k].request.invoked)
                    /\ at_log[j].request.result = at_log[k].request.result
        /\ ~at_log[k].request.invoked =>
                \E j \in 1..(k - 1) :
                    /\ SameTriple(j, k)
                    /\ at_log[j].request.result = at_log[k].request.result

\* C12 amended: a request made less than an hour after the provider answered
\* a request with the same (company, text, template) returns that answer
\* without invoking the provider; every other request invokes the provider, so
\* an answer is never returned for a different triple; two requests with the
\* same triple less than an hour apart invoke the provider at most once.
C12_AnswerServedForAnHour ==
    \A k \in 1..Len(at_log) :
        /\ AnsweredWithinHour(k) # {} =>
                /\ ~at_log[k].request.invoked
                /\ \A j \in AnsweredWithinHour(k) :
                        at_log[j].request.result = at_log[k].request.result
        /\ AnsweredWithinHour(k) = {} => at_log[k].request.invoked
        /\ \A j \in 1..(k - 1) :
                (SameTriple(j, k) /\ at_log[k].at - at_log[j].at < ttl) =>
                    ~(at_log[j].request.invoked /\ at_log[k].request.invoked)

\* C12 witness: an answer was served again half an hour later, and the same
\* company and text under the other template went to the provider
C12_Witness ==
    /\ Len(at_log) = 3
    /\ at_log[1].request.invoked
    /\ SameTriple(1, 2) /\ ~at_log[2].request.invoked /\ at_log[2].at > at_log[1].at
    /\ at_log[3].request.company_name = at_log[1].request.company_name
    /\ at_log[3].request.provided_text = at_log[1].request.provided_text
    /\ at_log[3].request.prompt_template # at_log[1].request.prompt_template
    /\ at_log[3].request.invoked

\* C15: a failure outcome is cached like a success: less than an hour after
\* the provider failed on an analyze_text request or on a fetch_news call,
\* every request with the same arguments gets the same failure outcome
\* ("Analysis failed due to AI service error.", no result) from the cache.
C15_FailuresAreCached ==
    /\ \A k \in 1..Len(at_log) : \A j \in AnsweredWithinHour(k) :
            at_log[j].request.result = ANALYSIS_FAILED =>
                /\ ~at_log[k].request.invoked
                /\ at_log[k].request.result = ANALYSIS_FAILED
    /\ \A k \in 1..Len(fetch_log) : \A j \in 1..(k - 1) :
            (/\ fetch_log[j].args = fetch_log[k].args
             /\ ~fetch_log[j].from_cache
             /\ IsNone(fetch_log[j].ret)
             /\ fetch_log[k].at - fetch_log[j].at < ttl) =>
                /\ fetch_log[k].from_cache
                /\ IsNone(fetch_log[k].ret)

\* C15 witness: the provider raised, and the same request half an hour later
\* got the failure string without the provider being asked
C15_Witness ==
    /\ Len(at_log) >= 2
    /\ at_log[1].request.invoked
    /\ at_log[1].request.outcome.kind = "raise"
    /\ SameTriple(1, 2)
    /\ at_log[2].at > at_log[1].at
    /\ ~at_log[2].request.invoked
    /\ at_log[2].request.result = ANALYSIS_FAILED

====
